---- MODULE Spec2Model ----
(***************************************************************************)
(* The live session manager of the App component: session lifecycle,      *)
(* mode-switch restart, response-audio playback scheduling and camera /   *)
(* screen capture.  One action per handler or callback of the component;  *)
(* every await of the source is a boundary between two actions.           *)
(***************************************************************************)
EXTENDS Integers, Sequences, FiniteSets, TLC

\* ------------------------------------------------------------------ bounds
MaxSessions == 2
MaxChunks == 2
MaxTime == 1
MaxMediaReq == 2
MaxCommands == 2

\* --------------------------------------------------------------- constants
NoSession == 0
NoStream == 0
NoCommand == 0
NoContexts == 0
Durations == {1, 2}

IDLE == "IDLE"
CONNECTING == "CONNECTING"
CONNECTED == "CONNECTED"
MOUSE_SYSTEM_INSTRUCTION == "MOUSE"
NORMAL_SYSTEM_INSTRUCTION == "NORMAL"

SessionIds == 1..MaxSessions
ChunkIds == 1..MaxChunks
MediaIds == 1..MaxMediaReq

VARIABLES
  status,             \* useState status
  config,             \* useState config: isMouseMode, systemInstruction, capture flags
  keyCfg,             \* the config captured by the keydown effect's startSession
  sessionRef,         \* sessionRef.current (a session id, NoSession for null)
  sessionPromiseRef,  \* sessionPromiseRef.current
  audioContextRef,    \* audioContextRef.current: the startSession call that created the
                      \* pair of audio contexts, NoContexts for null
  audioNodesRef,      \* the session whose capture nodes audioNodesRef.current holds
  procOn,             \* sessions whose script processor is connected
  sessions,           \* every startSession call: transport state and closure
  timers,             \* pending 150 ms restart timers, in firing order
  nextStartTime,      \* nextStartTimeRef.current
  now,                \* outputCtx.currentTime
  audioSources,       \* audioSourcesRef.current
  chunks,             \* every received audio payload and its buffer source
  isUserTalking,
  isModelTalking,
  videoSrc,           \* videoRef.current.srcObject (a media request id)
  frameInterval,      \* frameIntervalRef.current (the request that set it)
  mediaRequestRef,    \* mediaRequestRef.current
  media,              \* every camera / screen acquisition request
  lastCommand,        \* useState lastCommand (the number of the command, NoCommand for null)
  cmdTimers,          \* pending 3 s expiry timers, in firing order: the command each was set for
  published,          \* how many commands have been published
  lastOp,             \* history: what the last step ran: "stop" (stopSession from the
                      \* user), "tstop" (from onerror / onclose; "again" when the step
                      \* before ran stopSession too), "switch" (from the
                      \* mode toggle), "ack" / "lateAck" (a tool call, its
                      \* acknowledgment sent on an open / a closed session), "intr"
                      \* (the interrupted branch), "frame" / "noframe" (a tick of the
                      \* frame timer that sent / did not send a frame), "other"
  errHandled,         \* history: a transport error/close was handled since the last user connect
  schedLog            \* history: chunks scheduled since the last interruption, in order

vars == <<status, config, keyCfg, sessionRef, sessionPromiseRef, audioContextRef,
          audioNodesRef, procOn, sessions, timers, nextStartTime, now, audioSources,
          chunks, isUserTalking, isModelTalking, videoSrc, frameInterval,
          mediaRequestRef, media, lastCommand, cmdTimers, published,
          lastOp, errHandled, schedLog>>

Max(a, b) == IF a >= b THEN a ELSE b

Instr(enabled) == IF enabled THEN MOUSE_SYSTEM_INSTRUCTION ELSE NORMAL_SYSTEM_INSTRUCTION

\* The values a callback created in the current render closes over.
CurrentClosure == [st |-> status, cam |-> config.isCameraEnabled, scr |-> config.isScreenSharing]

NoClosure == [st |-> IDLE, cam |-> FALSE, scr |-> FALSE]

FreshSession == [ts |-> "none", res |-> FALSE, wv |-> FALSE, mouse |-> FALSE,
                 instr |-> NORMAL_SYSTEM_INSTRUCTION, cap |-> NoClosure,
                 evt |-> FALSE, closes |-> 0, mic |-> FALSE]

FreshChunk == [st |-> "none", sess |-> NoSession, dur |-> 0, end |-> 0,
               intr |-> FALSE, stale |-> FALSE]

\* A payload whose handler has ended, or whose source only has its ended event
\* left: nothing reads its other fields any more.
Chunk(st) == [FreshChunk EXCEPT !.st = st]

FreshMedia == [st |-> "none", kind |-> "camera", cst |-> IDLE]

\* What is left of a startSession call's record once none of its callbacks can
\* read its closure any more: withVisual after onopen, everything after the
\* transport has closed or the call has failed.
Settle(ss) ==
  [s \in SessionIds |->
     IF ss[s].ts \in {"closed", "failed"}
       THEN [FreshSession EXCEPT !.ts = ss[s].ts, !.res = ss[s].res, !.evt = ss[s].evt,
                                 !.closes = ss[s].closes, !.mic = ss[s].mic]
     ELSE IF ss[s].ts = "open" THEN [ss[s] EXCEPT !.wv = FALSE]
     ELSE ss[s]]

nSessions == Cardinality({s \in SessionIds : sessions[s].ts # "none"})
nChunks == Cardinality({c \in ChunkIds : chunks[c].st # "none"})

Init ==
  /\ status = IDLE
  /\ config = [isMouseMode |-> TRUE, systemInstruction |-> MOUSE_SYSTEM_INSTRUCTION,
               isCameraEnabled |-> FALSE, isScreenSharing |-> FALSE]
  /\ keyCfg = config
  /\ sessionRef = NoSession
  /\ sessionPromiseRef = NoSession
  /\ audioContextRef = NoContexts
  /\ audioNodesRef = NoSession
  /\ procOn = {}
  /\ sessions = [s \in SessionIds |-> FreshSession]
  /\ timers = <<>>
  /\ nextStartTime = 0
  /\ now = 0
  /\ audioSources = {}
  /\ chunks = [c \in ChunkIds |-> FreshChunk]
  /\ isUserTalking = FALSE
  /\ isModelTalking = FALSE
  /\ videoSrc = NoStream
  /\ frameInterval = NoStream
  /\ mediaRequestRef = 0
  /\ media = [r \in MediaIds |-> FreshMedia]
  /\ lastCommand = NoCommand
  /\ cmdTimers = <<>>
  /\ published = 0
  /\ lastOp = "other"
  /\ errHandled = FALSE
  /\ schedLog = <<>>

\* The keydown effect re-subscribes (and captures a new startSession) only in a
\* render in which status changed.
Render == keyCfg' = IF status' # status THEN config' ELSE keyCfg


playVars == <<nextStartTime, now, audioSources, chunks, schedLog>>
vidVars == <<videoSrc, frameInterval, mediaRequestRef, media>>
cmdVars == <<lastCommand, cmdTimers, published>>
lifeVars == <<status, config, keyCfg, sessionRef, sessionPromiseRef, audioContextRef,
              audioNodesRef, procOn, sessions, timers, isUserTalking>>

Hist(op, err) == lastOp' = op /\ errHandled' = err

\* The steps that ran stopSession.
StopTags == {"stop", "tstop", "again", "switch", "lateAck"}

\* The tag of a transport callback's stopSession: "again" when the step before
\* it ran stopSession too.
TransportStop == IF lastOp \in StopTags THEN "again" ELSE "tstop"

\* ------------------------------------------------------------ stopSession
\* sessionRef.current.close?.() on the session the handle names.
CloseSession(ss, ref) ==
  IF ref = NoSession THEN ss
  ELSE [ss EXCEPT ![ref] = [ss[ref] EXCEPT
            !.closes = ss[ref].closes + 1,
            !.ts = IF ss[ref].ts = "open" THEN "closed" ELSE ss[ref].ts,
            !.evt = IF ss[ref].ts = "open" THEN TRUE ELSE ss[ref].evt]]

\* Variant of SessionRefAfterStop that keeps the handle after close().
KeepSessionRef(ref) == ref

\* sessionRef.current = null
SessionRefAfterStop(ref) == NoSession

\* audioSourcesRef.current.forEach(s => s.stop())
StopSources(ch) ==
  [c \in ChunkIds |-> IF c \in audioSources THEN Chunk("stopped") ELSE ch[c]]

\* getTracks().forEach(track => track.stop()) on the attached stream
StopTracks(md, src) == IF src = NoStream THEN md ELSE [md EXCEPT ![src].st = "stopped"]

\* Variant of StopConfig that leaves the capture flags as they are.
KeepCaptureFlags(cfg) == cfg

\* setConfig(prev => ({ ...prev, isCameraEnabled: false, isScreenSharing: false }))
StopConfig(cfg) == [cfg EXCEPT !.isCameraEnabled = FALSE, !.isScreenSharing = FALSE]

\* stopSession, all of it but the close() call, which CloseSession models: the
\* caller passes the config its own setConfig calls have produced so far.
stopSession(cfg) ==
  /\ sessionRef' = SessionRefAfterStop(sessionRef)
  /\ sessionPromiseRef' = NoSession
  /\ procOn' = procOn \ {audioNodesRef}
  /\ chunks' = StopSources(chunks)
  /\ audioSources' = {}
  /\ media' = StopTracks(media, videoSrc)
  /\ videoSrc' = NoStream
  /\ frameInterval' = NoStream
  /\ status' = IDLE
  /\ isUserTalking' = FALSE
  /\ isModelTalking' = FALSE
  /\ config' = StopConfig(cfg)
  /\ UNCHANGED <<audioContextRef, audioNodesRef, nextStartTime, now, schedLog, mediaRequestRef>>
  /\ UNCHANGED cmdVars

\* ----------------------------------------------------------- startSession
\* Variant of EnsureContexts that creates a pair in every call.
NewContexts(ref, call) == call

\* if (!audioContextRef.current) audioContextRef.current = { input: new ..., output: new ... }
EnsureContexts(ref, call) == IF ref = NoContexts THEN call ELSE ref

\* startSession up to its first await: the record of the new call keeps what its
\* callbacks close over (cap) and the instruction and mode it resolves.
startSession(withVisual, mouse, instr, cap) ==
  /\ nSessions < MaxSessions
  /\ sessions' = [sessions EXCEPT ![nSessions + 1] =
        [FreshSession EXCEPT !.ts = "mic", !.wv = withVisual, !.mouse = mouse,
                             !.instr = instr, !.cap = cap]]
  /\ status' = CONNECTING
  /\ audioContextRef' = EnsureContexts(audioContextRef, nSessions + 1)
  /\ UNCHANGED <<config, sessionRef, sessionPromiseRef, audioNodesRef, procOn,
                 isUserTalking, isModelTalking>>
  /\ UNCHANGED playVars
  /\ UNCHANGED cmdVars
  /\ UNCHANGED vidVars

\* The connect button: stopSession when Connected, else startSession(false) of the
\* current render.
ConnectButton ==
  IF status = CONNECTED
    THEN /\ stopSession(config)
         /\ sessions' = Settle(CloseSession(sessions, sessionRef))
         /\ UNCHANGED timers
         /\ Hist("stop", errHandled)
         /\ Render
    ELSE /\ startSession(FALSE, config.isMouseMode, config.systemInstruction, CurrentClosure)
         /\ UNCHANGED timers
         /\ Hist("other", FALSE)
         /\ Render

\* handleKeyDown, Enter: the startSession it calls is the one of the render in
\* which status last changed.
EnterKey ==
  IF status = CONNECTED
    THEN /\ stopSession(config)
         /\ sessions' = Settle(CloseSession(sessions, sessionRef))
         /\ UNCHANGED timers
         /\ Hist("stop", errHandled)
         /\ Render
    ELSE /\ startSession(FALSE, keyCfg.isMouseMode, keyCfg.systemInstruction,
                         [st |-> status, cam |-> keyCfg.isCameraEnabled,
                          scr |-> keyCfg.isScreenSharing])
         /\ UNCHANGED timers
         /\ Hist("other", FALSE)
         /\ Render

\* handleKeyDown, Escape
EscapeKey ==
  /\ status = CONNECTED
  /\ stopSession(config)
  /\ sessions' = Settle(CloseSession(sessions, sessionRef))
  /\ UNCHANGED timers
  /\ Hist("stop", errHandled)
  /\ Render

\* The 150 ms timer of applyMouseMode fires.
RestartTimer ==
  /\ timers # <<>>
  /\ LET t == Head(timers) IN startSession(t.wv, t.mouse, t.instr, t.cap)
  /\ timers' = Tail(timers)
  /\ Hist("other", errHandled)
  /\ Render

\* resume() and getUserMedia({audio}) settle; ai.live.connect is called. The
\* call now holds a microphone stream whose tracks are live (mic); no code of
\* the manager stops them.
MicGranted(s) ==
  /\ sessions[s].ts = "mic"
  /\ sessions' = [sessions EXCEPT ![s].ts = "opening", ![s].mic = TRUE]
  /\ sessionPromiseRef' = s
  /\ UNCHANGED <<status, config, sessionRef, audioContextRef, audioNodesRef, procOn,
                 timers, isUserTalking, isModelTalking>>
  /\ UNCHANGED playVars
  /\ UNCHANGED cmdVars
  /\ UNCHANGED vidVars
  /\ Hist("other", errHandled)
  /\ Render

\* catch (err) { setStatus(IDLE) }
CatchError(s, from) ==
  /\ sessions[s].ts = from
  /\ sessions' = Settle([sessions EXCEPT ![s].ts = "failed"])
  /\ status' = IDLE
  /\ UNCHANGED <<config, sessionRef, sessionPromiseRef, audioContextRef, audioNodesRef,
                 procOn, timers, isUserTalking, isModelTalking>>
  /\ UNCHANGED playVars
  /\ UNCHANGED cmdVars
  /\ UNCHANGED vidVars
  /\ Hist("other", errHandled)
  /\ Render

MicDenied(s) == CatchError(s, "mic")

ConnectFail(s) == CatchError(s, "opening")

\* ------------------------------------------------- camera / screen capture
Flag(kind) == IF kind = "camera" THEN "isCameraEnabled" ELSE "isScreenSharing"

\* toggleCamera / toggleScreenShare up to the await of the acquisition.
toggleMedia(kind, shouldEnable, capSt) ==
  /\ mediaRequestRef < MaxMediaReq
  /\ mediaRequestRef' = mediaRequestRef + 1
  /\ media' = [StopTracks(media, videoSrc) EXCEPT ![mediaRequestRef + 1] =
        IF shouldEnable THEN [st |-> "pending", kind |-> kind, cst |-> capSt]
                        ELSE [st |-> "off", kind |-> kind, cst |-> capSt]]
  /\ videoSrc' = NoStream
  /\ frameInterval' = NoStream
  /\ config' = IF shouldEnable THEN config ELSE [config EXCEPT ![Flag(kind)] = FALSE]

\* onopen
OnOpen(s) ==
  /\ sessions[s].ts = "opening"
  /\ sessions' = Settle([sessions EXCEPT ![s].ts = "open"])
  /\ status' = CONNECTED
  /\ audioNodesRef' = s
  /\ procOn' = procOn \cup {s}
  /\ IF sessions[s].wv
       THEN toggleMedia(IF sessions[s].cap.scr THEN "screen" ELSE "camera", TRUE,
                        sessions[s].cap.st)
       ELSE UNCHANGED <<config, videoSrc, frameInterval, mediaRequestRef, media>>
  /\ UNCHANGED <<sessionRef, sessionPromiseRef, audioContextRef, timers,
                 isUserTalking, isModelTalking>>
  /\ UNCHANGED playVars
  /\ UNCHANGED cmdVars
  /\ Hist("other", errHandled)
  /\ Render

\* sessionRef.current = await sessionPromise
Resolve(s) ==
  /\ sessions[s].ts \in {"open", "closed"}
  /\ ~sessions[s].res
  /\ sessions' = [sessions EXCEPT ![s].res = TRUE]
  /\ sessionRef' = s
  /\ UNCHANGED <<status, config, sessionPromiseRef, audioContextRef, audioNodesRef,
                 procOn, timers, isUserTalking, isModelTalking>>
  /\ UNCHANGED playVars
  /\ UNCHANGED cmdVars
  /\ UNCHANGED vidVars
  /\ Hist("other", errHandled)
  /\ Render

\* Variant of OnError that schedules a reconnect after the teardown.
OnErrorReconnects(s) ==
  /\ sessions[s].ts = "open"
  /\ stopSession(config)
  /\ sessions' = Settle([CloseSession(sessions, sessionRef) EXCEPT ![s].ts = "closed", ![s].evt = TRUE])
  /\ timers' = Append(timers, [wv |-> FALSE, mouse |-> config.isMouseMode,
                               instr |-> config.systemInstruction, cap |-> CurrentClosure])
  /\ Hist(TransportStop, TRUE)
  /\ Render

\* onerror: () => stopSession(); the failed transport then closes.
OnError(s) ==
  /\ sessions[s].ts = "open"
  /\ stopSession(config)
  /\ sessions' = Settle([CloseSession(sessions, sessionRef) EXCEPT ![s].ts = "closed", ![s].evt = TRUE])
  /\ UNCHANGED timers
  /\ Hist(TransportStop, TRUE)
  /\ Render

\* onclose: () => stopSession()
OnClose(s) ==
  /\ sessions[s].evt
  /\ stopSession(config)
  /\ sessions' = Settle(CloseSession([sessions EXCEPT ![s].evt = FALSE], sessionRef))
  /\ UNCHANGED timers
  /\ Hist(TransportStop, TRUE)
  /\ Render

\* The remote end closes an open transport; its close event is then delivered.
RemoteClose(s) ==
  /\ sessions[s].ts = "open"
  /\ sessions' = Settle([sessions EXCEPT ![s].ts = "closed", ![s].evt = TRUE])
  /\ UNCHANGED <<status, config, keyCfg, sessionRef, sessionPromiseRef, audioContextRef,
                 audioNodesRef, procOn, timers, isUserTalking, isModelTalking>>
  /\ UNCHANGED playVars
  /\ UNCHANGED cmdVars
  /\ UNCHANGED vidVars
  /\ Hist("other", errHandled)

\* ---------------------------------------------------------- applyMouseMode
\* setTimeout(() => startSession(...), 150). Timers fire in the order they were
\* set and each firing is a startSession call, so a timer set when the pending
\* ones already use up the calls left under MaxSessions can never fire: it is
\* not recorded.
SetTimeout(tm, t) == IF nSessions + Len(tm) < MaxSessions THEN Append(tm, t) ELSE tm

Restarts(cap) == cap.st \in {CONNECTED, CONNECTING}

SessionsAfterApply(ss, cap) == IF Restarts(cap) THEN CloseSession(ss, sessionRef) ELSE ss

\* applyMouseMode as the callback that closes over cap runs it.
applyMouseMode(enabled, cap) ==
  LET cfg == [config EXCEPT !.isMouseMode = enabled, !.systemInstruction = Instr(enabled)]
  IN IF Restarts(cap)
       THEN /\ stopSession(cfg)
            /\ timers' = SetTimeout(timers, [wv |-> cap.cam \/ cap.scr, mouse |-> enabled,
                                             instr |-> Instr(enabled), cap |-> cap])
       ELSE /\ config' = cfg
            /\ UNCHANGED <<status, sessionRef, sessionPromiseRef, audioContextRef,
                           audioNodesRef, procOn, timers, isUserTalking, isModelTalking>>
            /\ UNCHANGED playVars
            /\ UNCHANGED cmdVars
            /\ UNCHANGED vidVars

\* toggleMouseMode, from the button of the current render
ToggleMouseMode ==
  /\ applyMouseMode(~config.isMouseMode, CurrentClosure)
  /\ sessions' = Settle(SessionsAfterApply(sessions, CurrentClosure))
  /\ Hist(IF Restarts(CurrentClosure) THEN "switch" ELSE "other", errHandled)
  /\ Render

\* session.sendToolResponse runs in the microtask that follows the handler, on the
\* session that delivered the call: what the last step records is whether that
\* session was still open then.
SendToolResponse(ss, s) == IF ss[s].ts = "open" THEN "ack" ELSE "lateAck"

\* onmessage, toolCall branch
ToolCall(s, enabled) ==
  /\ sessions[s].ts = "open"
  /\ sessions[s].res
  /\ applyMouseMode(enabled, sessions[s].cap)
  /\ sessions' = Settle(SessionsAfterApply(sessions, sessions[s].cap))
  /\ Hist(SendToolResponse(sessions', s), errHandled)
  /\ Render

\* ------------------------------------------------------- command text
\* The text parts a model turn can carry: a command object, a command object
\* whose action is "none", an object that does not parse, plain prose.
Texts == {"click", "none", "broken", "prose"}

\* trimmed.startsWith('{') && trimmed.includes('"action"')
isJsonLike(text) == text \in {"click", "none", "broken"}

\* JSON.parse of the brace span: the action of the command, "throws" when the
\* span is not JSON.
ParseAction(text) == IF text = "broken" THEN "throws" ELSE text

\* The text branch reaches setLastCommand.
Publishes(text) == isJsonLike(text) /\ ParseAction(text) \notin {"throws", "none"}

\* onmessage, text branch: sessionIsMouseMode is the mode bound to the session.
TextMessage(s, text) ==
  /\ sessions[s].ts = "open"
  /\ sessions[s].res
  /\ IF sessions[s].mouse /\ Publishes(text)
       THEN /\ published < MaxCommands
            /\ published' = published + 1
            /\ lastCommand' = published + 1
            /\ cmdTimers' = Append(cmdTimers, published + 1)
       ELSE UNCHANGED cmdVars
  /\ UNCHANGED lifeVars
  /\ UNCHANGED isModelTalking
  /\ UNCHANGED playVars
  /\ UNCHANGED vidVars
  /\ Hist("other", errHandled)

\* setTimeout(() => setLastCommand(null), 3000) fires: the timers have one delay,
\* so they fire in the order they were set.
CommandExpire ==
  /\ cmdTimers # <<>>
  /\ lastCommand' = NoCommand
  /\ cmdTimers' = Tail(cmdTimers)
  /\ UNCHANGED published
  /\ UNCHANGED lifeVars
  /\ UNCHANGED isModelTalking
  /\ UNCHANGED playVars
  /\ UNCHANGED vidVars
  /\ Hist("other", errHandled)

\* ------------------------------------------------------ response playback
\* Variant of NextStartOnReceipt that takes the clock alone.
ClockOnReceipt(nst, clock) == clock

\* nextStartTimeRef.current = Math.max(nextStartTimeRef.current, outputCtx.currentTime)
NextStartOnReceipt(nst, clock) == Max(nst, clock)

AdvanceNextStart(nst, dur) == nst + dur

\* source.start(when) plays the buffer from when, or from the current time if
\* when has passed, for its duration.
PlaysUntil(when, clock, dur) == Max(when, clock) + dur

\* The interrupted branch: stop and clear every source, zero next-start-time.
\* stale marks the payloads whose decode is still pending at that moment.
InterruptSources(ch, stopped) ==
  [c \in ChunkIds |->
     IF c \in stopped THEN Chunk("stopped")
     ELSE IF ch[c].st = "decoding" THEN [ch[c] EXCEPT !.stale = TRUE]
     ELSE ch[c]]

\* onmessage, audio payload, up to the await of decodeAudioData. intr says the
\* same message also carries the interrupted signal.
AudioMessage(s, dur, intr) ==
  /\ sessions[s].ts = "open"
  /\ sessions[s].res
  /\ nChunks < MaxChunks
  /\ isModelTalking' = TRUE
  /\ nextStartTime' = NextStartOnReceipt(nextStartTime, now)
  /\ chunks' = [chunks EXCEPT ![nChunks + 1] =
        [FreshChunk EXCEPT !.st = "decoding", !.sess = s, !.dur = dur, !.intr = intr]]
  /\ UNCHANGED <<now, audioSources, schedLog>>
  /\ UNCHANGED lifeVars
  /\ UNCHANGED cmdVars
  /\ UNCHANGED vidVars
  /\ Hist("other", errHandled)

\* onmessage after the decode: create the source, start it at next-start-time,
\* advance next-start-time, add it to the set; then the interrupted branch.
DecodeDone(c) ==
  /\ chunks[c].st = "decoding"
  /\ LET sched == [chunks EXCEPT ![c] =
                      [Chunk("playing") EXCEPT !.end = PlaysUntil(nextStartTime, now, chunks[c].dur),
                                               !.stale = chunks[c].stale]]
     IN IF chunks[c].intr
          THEN /\ chunks' = InterruptSources(sched, audioSources \cup {c})
               /\ audioSources' = {}
               /\ nextStartTime' = 0
               /\ isModelTalking' = FALSE
               /\ schedLog' = <<>>
               /\ Hist("intr", errHandled)
          ELSE /\ chunks' = sched
               /\ audioSources' = audioSources \cup {c}
               /\ nextStartTime' = AdvanceNextStart(nextStartTime, chunks[c].dur)
               /\ schedLog' = Append(schedLog, [id |-> c, sess |-> chunks[c].sess,
                                                  start |-> nextStartTime,
                                                  dur |-> chunks[c].dur])
               /\ UNCHANGED isModelTalking
               /\ Hist("other", errHandled)
  /\ UNCHANGED now
  /\ UNCHANGED lifeVars
  /\ UNCHANGED cmdVars
  /\ UNCHANGED vidVars

\* decodeAudioData rejects: the handler ends there.
DecodeFail(c) ==
  /\ chunks[c].st = "decoding"
  /\ chunks' = [chunks EXCEPT ![c] = Chunk("done")]
  /\ UNCHANGED <<nextStartTime, now, audioSources, schedLog, isModelTalking>>
  /\ UNCHANGED lifeVars
  /\ UNCHANGED cmdVars
  /\ UNCHANGED vidVars
  /\ Hist("other", errHandled)

\* onmessage, a message that carries the interrupted signal and no audio
Interrupted(s) ==
  /\ sessions[s].ts = "open"
  /\ sessions[s].res
  /\ chunks' = InterruptSources(chunks, audioSources)
  /\ audioSources' = {}
  /\ nextStartTime' = 0
  /\ isModelTalking' = FALSE
  /\ schedLog' = <<>>
  /\ UNCHANGED now
  /\ UNCHANGED lifeVars
  /\ UNCHANGED cmdVars
  /\ UNCHANGED vidVars
  /\ Hist("intr", errHandled)

\* source.onended: the buffer played to its end, or stop() was called on it.
SourceEnded(c) ==
  /\ \/ chunks[c].st = "stopped"
     \/ chunks[c].st = "playing" /\ now >= chunks[c].end
  /\ chunks' = [chunks EXCEPT ![c] = Chunk("done")]
  /\ audioSources' = audioSources \ {c}
  /\ isModelTalking' = IF audioSources \ {c} = {} THEN FALSE ELSE isModelTalking
  /\ UNCHANGED <<nextStartTime, now, schedLog>>
  /\ UNCHANGED lifeVars
  /\ UNCHANGED cmdVars
  /\ UNCHANGED vidVars
  /\ Hist("other", errHandled)

\* The output context's clock advances.
Tick ==
  /\ now < MaxTime
  /\ now' = now + 1
  /\ UNCHANGED <<nextStartTime, audioSources, chunks, schedLog, isModelTalking>>
  /\ UNCHANGED lifeVars
  /\ UNCHANGED cmdVars
  /\ UNCHANGED vidVars
  /\ Hist("other", errHandled)

\* scriptProcessor.onaudioprocess of a connected processor: muted or quiet frames
\* give false, loud ones true.
AudioProcess(s, loud) ==
  /\ s \in procOn
  /\ isUserTalking' = loud
  /\ UNCHANGED <<status, config, keyCfg, sessionRef, sessionPromiseRef, audioContextRef,
                 audioNodesRef, procOn, sessions, timers, isModelTalking>>
  /\ UNCHANGED playVars
  /\ UNCHANGED cmdVars
  /\ UNCHANGED vidVars
  /\ Hist("other", errHandled)

\* ------------------------------------------ camera / screen, user and device
mediaFrame ==
  /\ UNCHANGED <<status, keyCfg, sessionRef, sessionPromiseRef, audioContextRef,
                 audioNodesRef, procOn, sessions, timers, isUserTalking, isModelTalking>>
  /\ UNCHANGED playVars
  /\ UNCHANGED cmdVars
  /\ Hist("other", errHandled)

\* The camera button: toggleCamera() of the current render
ToggleCamera ==
  /\ toggleMedia("camera", ~config.isCameraEnabled, status)
  /\ mediaFrame

\* The screen-share button: toggleScreenShare() of the current render
ToggleScreenShare ==
  /\ toggleMedia("screen", ~config.isScreenSharing, status)
  /\ mediaFrame

\* Variant of IsStale that never finds a request stale.
NeverStale(r) == FALSE

\* sequence !== mediaRequestRef.current
IsStale(r) == r # mediaRequestRef

\* getUserMedia / getDisplayMedia resolves: a stale request releases its stream
\* (its tracks are stopped, it is never attached), the latest one runs
\* startMediaStreaming and sets its flag.
AcquireOk(r) ==
  /\ media[r].st = "pending"
  /\ IF IsStale(r)
       THEN /\ media' = [media EXCEPT ![r].st = "released"]
            /\ UNCHANGED <<videoSrc, frameInterval, config>>
       ELSE /\ media' = [media EXCEPT ![r].st = "live"]
            /\ videoSrc' = r
            /\ frameInterval' = r
            /\ config' = [config EXCEPT !.isCameraEnabled = (media[r].kind = "camera"),
                                        !.isScreenSharing = (media[r].kind = "screen")]
  /\ UNCHANGED mediaRequestRef
  /\ mediaFrame

\* Variant of AcquireFail that resets both capture flags.
AcquireFailResetsBoth(r) ==
  /\ media[r].st = "pending"
  /\ media' = [media EXCEPT ![r].st = "failed"]
  /\ config' = StopConfig(config)
  /\ UNCHANGED <<videoSrc, frameInterval, mediaRequestRef>>
  /\ mediaFrame

\* getUserMedia / getDisplayMedia rejects
AcquireFail(r) ==
  /\ media[r].st = "pending"
  /\ media' = [media EXCEPT ![r].st = "failed"]
  /\ config' = [config EXCEPT ![Flag(media[r].kind)] = FALSE]
  /\ UNCHANGED <<videoSrc, frameInterval, mediaRequestRef>>
  /\ mediaFrame

\* The interval callback goes on to draw and send a frame: status there is the
\* status closed over by the startMediaStreaming that set the interval, and the
\* frame goes to the session promise in place.
SendsFrame(r) == media[r].cst = CONNECTED /\ sessionPromiseRef # NoSession

\* The 1 s interval set by startMediaStreaming ticks. The last step records
\* whether a frame was sent ("frame") or not ("noframe").
FrameTick ==
  /\ frameInterval # NoStream
  /\ UNCHANGED <<status, config, keyCfg, sessionRef, sessionPromiseRef, audioContextRef,
                 audioNodesRef, procOn, sessions, timers, isUserTalking, isModelTalking>>
  /\ UNCHANGED playVars
  /\ UNCHANGED cmdVars
  /\ UNCHANGED vidVars
  /\ Hist(IF SendsFrame(frameInterval) THEN "frame" ELSE "noframe", errHandled)

\* The video track of an attached stream ends out of band.
TrackEnded(r) ==
  /\ media[r].st = "live"
  /\ media' = StopTracks([media EXCEPT ![r].st = "stopped"], videoSrc)
  /\ videoSrc' = NoStream
  /\ frameInterval' = NoStream
  /\ config' = StopConfig(config)
  /\ UNCHANGED mediaRequestRef
  /\ mediaFrame

\* ---------------------------------------------------------- specifications
\* Session lifecycle: every way to start, stop, fail and restart a session.
Next ==
  \/ ConnectButton
  \/ EnterKey
  \/ EscapeKey
  \/ RestartTimer
  \/ ToggleMouseMode
  \/ \E s \in SessionIds :
       \/ MicGranted(s)
       \/ MicDenied(s)
       \/ ConnectFail(s)
       \/ OnOpen(s)
       \/ Resolve(s)
       \/ OnError(s)
       \/ OnClose(s)
       \/ RemoteClose(s)
       \/ \E enabled \in BOOLEAN : ToolCall(s, enabled)

Spec == Init /\ [][Next]_vars

\* Response playback on the session of one connect, with every way that session
\* ends.
NextPlayback ==
  \/ nSessions = 0 /\ ConnectButton
  \/ EscapeKey
  \/ Tick
  \/ \E s \in SessionIds :
       \/ MicGranted(s)
       \/ OnOpen(s)
       \/ Resolve(s)
       \/ OnError(s)
       \/ OnClose(s)
       \/ Interrupted(s)
       \/ \E dur \in Durations, intr \in BOOLEAN : AudioMessage(s, dur, intr)
  \/ \E c \in ChunkIds :
       \/ DecodeDone(c)
       \/ DecodeFail(c)
       \/ SourceEnded(c)

SpecPlayback == Init /\ [][NextPlayback]_vars

\* Teardown of the session of one connect, with response audio scheduled, a
\* camera or screen stream attached and the microphone running.
NextTeardown ==
  \/ (nSessions = 0 \/ status = CONNECTED) /\ ConnectButton
  \/ EscapeKey
  \/ ToggleCamera
  \/ \E s \in SessionIds :
       \/ MicGranted(s)
       \/ OnOpen(s)
       \/ Resolve(s)
       \/ OnError(s)
       \/ OnClose(s)
       \/ RemoteClose(s)
       \/ AudioMessage(s, 1, FALSE)
       \/ \E loud \in BOOLEAN : AudioProcess(s, loud)
  \/ \E c \in ChunkIds :
       \/ DecodeDone(c)
       \/ SourceEnded(c)
  \/ \E r \in MediaIds : AcquireOk(r)

SpecTeardown == Init /\ [][NextTeardown]_vars

\* One connect by the user, then mode switches and the restarts they schedule,
\* with the transport failing or closing at any point.
NextRestart ==
  \/ nSessions = 0 /\ ConnectButton
  \/ RestartTimer
  \/ ToggleMouseMode
  \/ \E s \in SessionIds :
       \/ MicGranted(s)
       \/ OnOpen(s)
       \/ Resolve(s)
       \/ OnError(s)
       \/ OnClose(s)
       \/ RemoteClose(s)

SpecRestart == Init /\ [][NextRestart]_vars

\* Camera and screen capture around the session of one connect: toggles, the
\* acquisitions resolving or failing in any order, tracks ending.
NextMedia ==
  \/ (nSessions = 0 \/ status = CONNECTED) /\ ConnectButton
  \/ ToggleCamera
  \/ ToggleScreenShare
  \/ FrameTick
  \/ \E s \in SessionIds :
       \/ MicGranted(s)
       \/ OnOpen(s)
       \/ Resolve(s)
       \/ OnClose(s)
  \/ \E r \in MediaIds :
       \/ AcquireOk(r)
       \/ AcquireFail(r)
       \/ TrackEnded(r)

SpecMedia == Init /\ [][NextMedia]_vars

\* Commands: one connect in the initial (mouse) mode, command text from the
\* model, mode switches by the user and by tool calls, and their restarts.
NextCommand ==
  \/ nSessions = 0 /\ ConnectButton
  \/ ToggleMouseMode
  \/ RestartTimer
  \/ CommandExpire
  \/ \E s \in SessionIds :
       \/ MicGranted(s)
       \/ OnOpen(s)
       \/ Resolve(s)
       \/ OnClose(s)
       \/ \E enabled \in BOOLEAN : ToolCall(s, enabled)
       \/ \E text \in Texts : TextMessage(s, text)

SpecCommand == Init /\ [][NextCommand]_vars

\* ------------------------------------------------------------------ claims
\* The transport sessions that are open or being opened.
LiveSessions == {s \in SessionIds : sessions[s].ts \in {"opening", "open"}}

\* C1: in every reachable state at most one transport session is open or being
\* opened.
AtMostOneSession == Cardinality(LiveSessions) <= 1

StatusEdges == {<<IDLE, CONNECTING>>, <<CONNECTING, CONNECTED>>, <<CONNECTING, IDLE>>,
                <<CONNECTED, IDLE>>}

\* C2: every change of status is Idle -> Connecting, Connecting -> Connected,
\* Connecting -> Idle or Connected -> Idle; never Idle -> Connected.
StatusFollowsEdges == [][status' # status => <<status, status'>> \in StatusEdges]_vars

\* C3: in the state a step that ran stopSession leaves, status is Idle, the
\* session handle and promise are cleared, no playback source is in the set, no
\* stream is attached, the frame timer is cleared, both talking flags and both
\* capture flags are false.
StoppedState ==
  lastOp \in StopTags =>
    /\ status = IDLE
    /\ sessionRef = NoSession
    /\ sessionPromiseRef = NoSession
    /\ audioSources = {}
    /\ videoSrc = NoStream
    /\ frameInterval = NoStream
    /\ ~isUserTalking
    /\ ~isModelTalking
    /\ ~config.isCameraEnabled
    /\ ~config.isScreenSharing

\* stopSession has just closed a session, stopped a scheduled source and stopped
\* the tracks of the stream of the only capture request made.
StoppedEverything ==
  /\ lastOp \in StopTags
  /\ \E s \in SessionIds : sessions[s].closes = 1
  /\ \E c \in ChunkIds : chunks[c].st = "stopped"
  /\ mediaRequestRef = 1
  /\ media[1].st = "stopped"

\* What stopSession reads or writes, and the close() calls made so far.
TeardownUnchanged ==
  /\ UNCHANGED <<status, config, keyCfg, sessionRef, sessionPromiseRef, audioContextRef,
                 audioNodesRef, procOn, timers, nextStartTime, audioSources, chunks,
                 isUserTalking, isModelTalking, videoSrc, frameInterval,
                 mediaRequestRef, media>>
  /\ \A s \in SessionIds : sessions'[s].closes = sessions[s].closes

\* C4: a stopSession call that directly follows another one (from the stop
\* button, onerror or onclose) changes nothing, and close() is called at most
\* once on any session.
TeardownIdempotent ==
  /\ [][lastOp' = "again" => TeardownUnchanged]_vars
  /\ [](\A s \in SessionIds : sessions[s].closes <= 1)

\* A transport callback has run stopSession right after the stopSession call
\* that closed a session.
StoppedTwice ==
  /\ lastOp = "again"
  /\ \E s \in SessionIds : sessions[s].closes = 1 /\ sessions[s].ts = "closed"

\* C5 as stated: once a transport error or close has been handled, status is
\* Idle and no session is opened or opening until the user connects again.
IdleAfterTransportEnd ==
  errHandled =>
    /\ status = IDLE
    /\ \A s \in SessionIds : sessions[s].ts \notin {"mic", "opening", "open"}

\* C5: the step that handles a transport error or close leaves status Idle and
\* the session handle and promise cleared, starts no session and sets no
\* timer; after it, and until the user connects, status leaves Idle only when a
\* mode-switch restart timer fires or a connect that was in flight opens.
NoReconnectByHandler ==
  [][((lastOp' \in {"tstop", "again"}) =>
        (/\ status' = IDLE
         /\ sessionRef' = NoSession
         /\ sessionPromiseRef' = NoSession
         /\ timers' = timers
         /\ \A s \in SessionIds : sessions[s].ts = "none" <=> sessions'[s].ts = "none"))
     /\ ((errHandled /\ errHandled' /\ status = IDLE /\ status' # IDLE) =>
           (\/ status' = CONNECTING /\ timers # <<>> /\ timers' = Tail(timers)
            \/ status' = CONNECTED /\ \E s \in SessionIds :
                  sessions[s].ts = "opening" /\ sessions'[s].ts = "open"))]_vars

\* onerror or onclose of a session has just run its teardown: the session is
\* closed, its close event consumed.
TransportEndHandled ==
  /\ lastOp \in {"tstop", "again"}
  /\ errHandled
  /\ \E s \in SessionIds : sessions[s].ts = "closed" /\ ~sessions[s].evt

\* C6 as stated: the interrupted branch leaves the set empty, next-start-time
\* zero and model-talking false, and no chunk whose decode was pending at an
\* interruption is playing afterwards.
InterruptionDiscardsAll ==
  /\ lastOp = "intr" => audioSources = {} /\ nextStartTime = 0 /\ ~isModelTalking
  /\ \A c \in ChunkIds : ~(chunks[c].stale /\ chunks[c].st = "playing")

\* C7: of the chunks scheduled since the last interruption, each starts no
\* earlier than the one before it ends, and next-start-time decreases only in
\* the interrupted branch.
StartsDoNotOverlap ==
  /\ [](\A i \in 1..(Len(schedLog) - 1) :
          schedLog[i + 1].start >= schedLog[i].start + schedLog[i].dur)
  /\ [][nextStartTime' < nextStartTime => lastOp' = "intr"]_vars

\* Two chunks have been scheduled one behind the other, the first at a clock
\* reading that had passed next-start-time.
ScheduledBackToBack ==
  /\ Len(schedLog) >= 2
  /\ schedLog[1].start > 0

\* C8 as stated: of two chunks of one session that have been scheduled, the
\* one received first has the earlier start.
ReceiptOrderKept ==
  \A i, j \in DOMAIN schedLog :
    (schedLog[i].sess = schedLog[j].sess /\ schedLog[i].id < schedLog[j].id)
      => schedLog[i].start < schedLog[j].start

\* C9 as stated: while a source is in the set, model-talking is true.
TalkingWhileSources == audioSources # {} => isModelTalking

\* C10: the acknowledgment of a set_mouse_control call is sent on the session that
\* delivered it before the mode change closes that session.
AckBeforeClose == lastOp # "lateAck"

\* C11 as stated, its teardown part: a step that runs applyMouseMode (from the
\* toggle or from a tool call) while status is Connected or Connecting leaves no
\* session open or being opened, and every pending restart carries the
\* instruction of its mode.
SwitchTearsDown ==
  [][((status \in {CONNECTED, CONNECTING} /\ lastOp' \in {"switch", "ack", "lateAck"}) =>
        (\A s \in SessionIds : sessions'[s].ts \notin {"mic", "opening", "open"}))
     /\ (\A i \in DOMAIN timers' : timers'[i].instr = Instr(timers'[i].mouse))]_vars

\* C12 as stated: a command is published only by a step in which Config's mode
\* flag and the mode bound to the open sessions are command-mode.
PublishedInCommandMode ==
  [][published' # published =>
       (config.isMouseMode /\ \A s \in SessionIds : sessions[s].ts = "open" => sessions[s].mouse)]_vars

\* C13 as stated, its no-early-clearing part: a published command is cleared
\* only by its own expiry timer.
ClearedByOwnTimer ==
  [][(lastCommand # NoCommand /\ lastCommand' = NoCommand) =>
       (cmdTimers # <<>> /\ Head(cmdTimers) = lastCommand)]_vars

\* C14 as stated: while a conversational session is open, no command is
\* published.
NoCommandAfterSwitch ==
  (\E s \in SessionIds : sessions[s].ts = "open" /\ ~sessions[s].mouse) => lastCommand = NoCommand

\* C15: an acquisition that resolves after the request counter has moved past
\* its own number has its stream released and changes neither the attached
\* stream, the frame timer nor Config; the attached stream is always that of
\* the latest request.
StaleRequestDiscarded ==
  /\ [][\A r \in MediaIds :
          (media[r].st = "pending" /\ media'[r].st \notin {"pending", "failed"} /\ r # mediaRequestRef) =>
            (media'[r].st = "released" /\ UNCHANGED <<videoSrc, frameInterval, config>>)]_vars
  /\ [](videoSrc \in {NoStream, mediaRequestRef} /\ frameInterval \in {NoStream, mediaRequestRef})

\* A stale request has resolved and released its stream while the stream of
\* the latest request is attached.
StaleReleased ==
  /\ \E r \in MediaIds : media[r].st = "released"
  /\ videoSrc = mediaRequestRef

\* C16: the step in which a camera or screen acquisition fails sets the flag of
\* the requested capability to false and changes nothing else of Config, nor
\* the status, the session handle and promise, the sessions, the attached
\* stream or the frame timer.
AcquisitionFailureIsLocal ==
  [][\A r \in MediaIds :
       (media[r].st = "pending" /\ media'[r].st = "failed") =>
         (/\ config' = [config EXCEPT ![Flag(media[r].kind)] = FALSE]
          /\ UNCHANGED <<status, sessionRef, sessionPromiseRef, sessions, videoSrc,
                         frameInterval>>)]_vars

\* A screen acquisition has failed on an open session while the camera flag is
\* set.
ScreenFailedWhileConnected ==
  /\ \E r \in MediaIds : media[r].st = "failed" /\ media[r].kind = "screen"
  /\ config.isCameraEnabled
  /\ status = CONNECTED
  /\ sessionRef # NoSession
  /\ sessions[sessionRef].ts = "open"

\* C17: once the pair of audio contexts exists, no step replaces it.
ContextsCreatedOnce ==
  [][audioContextRef # NoContexts => audioContextRef' = audioContextRef]_vars

\* A second startSession call has run with the pair of the first one in place.
ContextsReused ==
  /\ nSessions >= 2
  /\ audioContextRef = 1

\* C18 as stated: a tick of the frame timer sends a frame exactly when status
\* is Connected at that tick.
FrameExactlyWhenConnected ==
  /\ lastOp = "frame" => status = CONNECTED
  /\ lastOp = "noframe" => status # CONNECTED

\* C19 as stated: the step that handles a set_mouse_control call while status is
\* Connected leaves Config's instruction the one of its mode flag, tears the
\* session down (status Idle) and sets the restart timer.
ToolCallSwitchesFully ==
  [][(lastOp' \in {"ack", "lateAck"} /\ status = CONNECTED) =>
       (/\ config'.systemInstruction = Instr(config'.isMouseMode)
        /\ status' = IDLE
        /\ (nSessions + Len(timers) < MaxSessions => Len(timers') = Len(timers) + 1))]_vars

\* C20 as stated: model-talking is true only while a source is in the active
\* set or the decode of a received payload is pending; with the set empty and
\* nothing pending it is false.
TalkingOnlyWithAudio ==
  isModelTalking => (audioSources # {} \/ \E c \in ChunkIds : chunks[c].st = "decoding")

\* The stream attached to the video element is a live one of the given kind.
LiveStreamAttached(kind) ==
  /\ videoSrc # NoStream
  /\ media[videoSrc].st = "live"
  /\ media[videoSrc].kind = kind

\* C21 as stated: while the camera flag or the screen-sharing flag is true, a
\* live stream of that kind is attached to the video element.
FlagImpliesLiveStream ==
  /\ config.isCameraEnabled => LiveStreamAttached("camera")
  /\ config.isScreenSharing => LiveStreamAttached("screen")


\* No session is being set up or is open: the manager is at rest.
NoConnectInProgress ==
  \A s \in SessionIds : sessions[s].ts \notin {"mic", "opening", "open"}

\* C22 as stated: while the status is Idle and no connect is in progress, no
\* response audio is in the active playback set or playing.
SilentWhileIdle ==
  (status = IDLE /\ NoConnectInProgress) =>
    /\ audioSources = {}
    /\ \A c \in ChunkIds : chunks[c].st # "playing"


\* The microphone streams acquired by startSession whose tracks were not stopped.
MicStreamsHeld == {s \in SessionIds : sessions[s].mic}

\* C23 as stated: no microphone stream is held while the status is Idle, and at
\* most one is held otherwise.
MicReleasedInIdle ==
  /\ status = IDLE => MicStreamsHeld = {}
  /\ Cardinality(MicStreamsHeld) <= 1

====
